---- MODULE Spec2Model ----
(***************************************************************************)
(* Model of src/verify_links.py: the documentation link checker.           *)
(*                                                                         *)
(* Python strings are modelled as sequences of one-character strings, so   *)
(* that the regular expression of extract_urls_from_file, the substring    *)
(* tests and the rstrip of check_url, and the lexicographic sort of main   *)
(* are computed the way the code computes them.                            *)
(*                                                                         *)
(* Time is counted in milliseconds.                                        *)
(***************************************************************************)
EXTENDS Integers, Sequences, FiniteSets

(***************************************************************************)
(* Bounds of the model.                                                    *)
(***************************************************************************)
\* number of entries of doc_files (11 in the source)
NFiles == 2

(***************************************************************************)
(* Program constants.                                                      *)
(***************************************************************************)
\* time.sleep(0.1), in milliseconds
SleepDelay == 100

(***************************************************************************)
(* String literals of the program.                                         *)
(***************************************************************************)
TEMPLATE_URL == <<"T","E","M","P","L","A","T","E","_","U","R","L">>
EXAMPLE_URL == <<"E","X","A","M","P","L","E","_","U","R","L">>
OK == <<"O","K">>

TemplateMarkers ==
    { <<"{">>, <<"}">>, <<"$","{">>,
      <<"$","L","O","C","A","T","I","O","N">>,
      <<"P","R","O","J","E","C","T","_","I","D">>,
      <<"T","E","A","M","_","I","D">>,
      <<"[">>, <<"]">> }

ExampleMarkers ==
    { <<"e","x","a","m","p","l","e",".","c","o","m">>,
      <<"e","x","a","m","p","l","e","1","2","3">>,
      <<"x","y","z","c","o","m","p","a","n","y">>,
      <<"y","o","u","r","-","s","e","r","v","e","r",".","c","o","m">> }

\* the characters of url.rstrip("'\".,;:")
StripChars == {"'", "\"", ".", ",", ";", ":"}

\* the backquote character, which a TLA+ string cannot contain
Backtick == "backquote"

\* the characters the class [^\s\)"\'\`] excludes
\* (\s: space, tab, newline, carriage return, form feed)
UrlStopChars == {" ", "\t", "\n", "\r", "\f", ")", "\"", "'", Backtick}

(***************************************************************************)
(* The input domain: contents of corpus files, and what the network can    *)
(* answer.                                                                 *)
(***************************************************************************)
\* (http://a) http://a.
Text1 == <<"(","h","t","t","p",":","/","/","a",")"," ",
           "h","t","t","p",":","/","/","a",".">>
\* http://a http://a-example.com/x, https://example.com/{id}<newline>
\* "http://x/[i]" http://x/[i]
Text2 == <<"h","t","t","p",":","/","/","a"," ",
           "h","t","t","p",":","/","/","a","-","e","x","a","m","p","l","e",
           ".","c","o","m","/","x",","," ",
           "h","t","t","p","s",":","/","/","e","x","a","m","p","l","e",".",
           "c","o","m","/","{","i","d","}","\n",
           "\"","h","t","t","p",":","/","/","x","/","[","i","]","\""," ",
           "h","t","t","p",":","/","/","x","/","[","i","]">>

Texts == {Text1, Text2}

\* a corpus file: open() raises when it is missing or unreadable
FileStates ==
    [readable : {TRUE}, content : Texts]
        \cup {[readable |-> FALSE, content |-> <<>>]}

UrlA == <<"h","t","t","p",":","/","/","a">>
UrlR == <<"h","t","t","p",":","/","/","r">>

\* what response.geturl() can return
FinalUrls == {UrlA, UrlR}

NotFound == <<"N","o","t"," ","F","o","u","n","d">>
ServerError == <<"S","e","r","v","e","r"," ","E","r","r","o","r">>
NotModified == <<"N","o","t"," ","M","o","d","i","f","i","e","d">>
NameNotKnown == <<"N","a","m","e"," ","n","o","t"," ","k","n","o","w","n">>
TimedOut == <<"t","i","m","e","d"," ","o","u","t">>

\* the ways urlopen can end: a response (urllib's HTTPErrorProcessor lets
\* only 2xx through), an HTTPError for any other status, a URLError, or
\* any other exception (a read timeout, a malformed URL, ...)
NetOutcomes ==
    [kind : {"response"}, code : {200, 204},
     final_url : FinalUrls, reason : {OK}]
    \cup
    { [kind |-> "HTTPError", code |-> 304, final_url |-> <<>>,
       reason |-> NotModified],
      [kind |-> "HTTPError", code |-> 404, final_url |-> <<>>,
       reason |-> NotFound],
      [kind |-> "HTTPError", code |-> 500, final_url |-> <<>>,
       reason |-> ServerError],
      [kind |-> "URLError", code |-> 0, final_url |-> <<>>,
       reason |-> NameNotKnown],
      [kind |-> "Exception", code |-> 0, final_url |-> <<>>,
       reason |-> TimedOut] }

(***************************************************************************)
(* String helpers.                                                         *)
(***************************************************************************)
Range(s) == {s[k] : k \in 1..Len(s)}

\* lit occurs in s at position p
HasAt(s, p, lit) ==
    /\ p >= 1
    /\ p + Len(lit) - 1 <= Len(s)
    /\ \A k \in 1..Len(lit) : s[p + k - 1] = lit[k]

\* Python's  x in url
Contains(url, x) ==
    \E p \in 1..(Len(url) - Len(x) + 1) :
        \A k \in 1..Len(x) : url[p + k - 1] = x[k]

\* code point of a character
Ord(c) ==
    CASE c = "\t" -> 9   [] c = "\n" -> 10  [] c = "\f" -> 12
      [] c = "\r" -> 13  [] c = " " -> 32   [] c = "\"" -> 34
      [] c = "$" -> 36   [] c = "'" -> 39   [] c = "(" -> 40
      [] c = ")" -> 41   [] c = "," -> 44   [] c = "-" -> 45
      [] c = "." -> 46   [] c = "/" -> 47   [] c = ":" -> 58
      [] c = ";" -> 59   [] c = "[" -> 91   [] c = "]" -> 93
      [] c = "_" -> 95   [] c = Backtick -> 96   [] c = "a" -> 97
      [] c = "c" -> 99   [] c = "d" -> 100  [] c = "e" -> 101
      [] c = "h" -> 104  [] c = "i" -> 105  [] c = "l" -> 108
      [] c = "m" -> 109  [] c = "o" -> 111  [] c = "p" -> 112
      [] c = "r" -> 114  [] c = "s" -> 115  [] c = "t" -> 116
      [] c = "x" -> 120  [] c = "z" -> 122  [] c = "{" -> 123
      [] c = "}" -> 125

\* Python's  a < b  on strings
StrLess(a, b) ==
    LET m == IF Len(a) < Len(b) THEN Len(a) ELSE Len(b)
    IN  \E k \in 1..(m + 1) :
            /\ \A j \in 1..(k - 1) : a[j] = b[j]
            /\ \/ k <= m /\ Ord(a[k]) < Ord(b[k])
               \/ k = Len(a) + 1 /\ k <= Len(b)

\* Python's  sorted(S)  on a set of strings
RECURSIVE Sorted(_)
Sorted(S) ==
    IF S = {} THEN <<>>
    ELSE LET least == CHOOSE x \in S : \A y \in S \ {x} : StrLess(x, y)
         IN  <<least>> \o Sorted(S \ {least})

\* Python's  url.rstrip("'\".,;:")
RECURSIVE RStrip(_)
RStrip(url) ==
    IF Len(url) > 0 /\ url[Len(url)] \in StripChars
    THEN RStrip(SubSeq(url, 1, Len(url) - 1))
    ELSE url

(***************************************************************************)
(* extract_urls_from_file                                                  *)
(***************************************************************************)
\* length of  https?://  matched at position p, 0 when it does not match
SchemeLen(text, p) ==
    IF HasAt(text, p, <<"h","t","t","p","s",":","/","/">>) THEN 8
    ELSE IF HasAt(text, p, <<"h","t","t","p",":","/","/">>) THEN 7
    ELSE 0

\* index of the last character of the greedy run  [^\s\)"\'\`]+  that
\* starts at position p (p - 1 when the run is empty)
RECURSIVE RunEnd(_, _)
RunEnd(text, p) ==
    IF p <= Len(text) /\ text[p] \notin UrlStopChars
    THEN RunEnd(text, p + 1)
    ELSE p - 1

\* re.findall(url_pattern, content), scanning from position p
RECURSIVE FindAllFrom(_, _)
FindAllFrom(text, p) ==
    IF p > Len(text) THEN <<>>
    ELSE LET n == SchemeLen(text, p)
             e == RunEnd(text, p + n)
         IN  IF n > 0 /\ e >= p + n
             THEN <<SubSeq(text, p, e)>> \o FindAllFrom(text, e + 1)
             ELSE FindAllFrom(text, p + 1)

FindAll(text) == FindAllFrom(text, 1)

\* list(set(urls)) of the matches of one readable file
ExtractUrlsFromFile(content) == Range(FindAll(content))

(***************************************************************************)
(* check_url                                                               *)
(***************************************************************************)
\* any(x in url for x in ['{', '}', '${', '$LOCATION', ...])
IsTemplateUrl(url) == \E x \in TemplateMarkers : Contains(url, x)

\* any(x in url for x in ['example.com', 'example123', ...])
IsExampleUrl(url) == \E x \in ExampleMarkers : Contains(url, x)

\* Probe with the two last except clauses missing: a URLError or any other
\* exception leaves check_url
Probe_TransportErrorEscapes(url, net) ==
    [ raised |-> net.kind \in {"URLError", "Exception"},
      calls  |-> <<[url |-> url, net |-> net]>>,
      ret    |->
        IF net.kind = "response"
        THEN IF net.final_url # url
             THEN <<url, net.code, net.final_url>>
             ELSE <<url, net.code, OK>>
        ELSE <<url, net.code, net.reason>> ]

\* The try block: one urlopen of url, which ends as net says.  calls is
\* the sequence of network calls made, each with the URL requested and the
\* way it ended; raised says whether an exception leaves check_url.
Probe(url, net) ==
    [ raised |-> FALSE,
      calls  |-> <<[url |-> url, net |-> net]>>,
      ret    |->
        IF net.kind = "response"
        THEN IF net.final_url # url
             THEN <<url, net.code, net.final_url>>
             ELSE <<url, net.code, OK>>
        ELSE IF net.kind = "HTTPError" THEN <<url, net.code, net.reason>>
        ELSE IF net.kind = "URLError" THEN <<url, -2, net.reason>>
        ELSE <<url, -3, net.reason>> ]

\* CheckUrl without the skip of example URLs
CheckUrl_NoExampleSkip(url, net) ==
    IF IsTemplateUrl(url)
    THEN [raised |-> FALSE, calls |-> <<>>, ret |-> <<url, -1, TEMPLATE_URL>>]
    ELSE Probe(RStrip(url), net)

\* CheckUrl with the two skips in the other order
CheckUrl_ExampleFirst(url, net) ==
    IF IsExampleUrl(url)
    THEN [raised |-> FALSE, calls |-> <<>>, ret |-> <<url, -1, EXAMPLE_URL>>]
    ELSE IF IsTemplateUrl(url)
    THEN [raised |-> FALSE, calls |-> <<>>, ret |-> <<url, -1, TEMPLATE_URL>>]
    ELSE Probe(RStrip(url), net)

CheckUrl(url, net) ==
    IF IsTemplateUrl(url)
    THEN [raised |-> FALSE, calls |-> <<>>, ret |-> <<url, -1, TEMPLATE_URL>>]
    ELSE IF IsExampleUrl(url)
    THEN [raised |-> FALSE, calls |-> <<>>, ret |-> <<url, -1, EXAMPLE_URL>>]
    ELSE Probe(RStrip(url), net)

(***************************************************************************)
(* main                                                                    *)
(***************************************************************************)
VARIABLES
    files,        \* the corpus on disk: doc_files[f] is files[f]
    pc,           \* "collect", "verify", "done" or "aborted"
    file_idx,     \* position of the collecting loop in doc_files
    all_urls,     \* the set all_urls
    read_errors,  \* the files reported by  print("Error reading ...")
    queue,        \* sorted(all_urls), fixed when the verifying loop starts
    i,            \* position of the verifying loop in queue
    results,      \* the dict results: bucket name -> list of tuples
    requests,     \* the network calls made so far, in order
    clock,        \* the time, in milliseconds
    report,       \* the report file: <<>> until it is written
    exc           \* the exception that ended the run, "" when none

vars == <<files, pc, file_idx, all_urls, read_errors, queue, i, results,
          requests, clock, report, exc>>

BucketNames ==
    {"valid", "redirected", "broken", "template", "example", "error"}

\* Bucket with  status >= 500  for  status >= 400
Bucket_BrokenFrom500(status, result) ==
    IF status = -1
    THEN IF result = TEMPLATE_URL THEN "template" ELSE "example"
    ELSE IF status = 200
    THEN IF result # OK THEN "redirected" ELSE "valid"
    ELSE IF status >= 500 THEN "broken"
    ELSE "error"

\* the bucket the if/elif chain of the verifying loop appends to
Bucket(status, result) ==
    IF status = -1
    THEN IF result = TEMPLATE_URL THEN "template" ELSE "example"
    ELSE IF status = 200
    THEN IF result # OK THEN "redirected" ELSE "valid"
    ELSE IF status >= 400 THEN "broken"
    ELSE "error"

\* CollectOne that drops what was collected when a file cannot be read
CollectOne_ClearOnError(urls, file) ==
    IF file.readable
    THEN urls \cup ExtractUrlsFromFile(file.content)
    ELSE {}

\* one turn of the collecting loop: all_urls after the try/except
CollectOne(urls, file) ==
    IF file.readable
    THEN urls \cup ExtractUrlsFromFile(file.content)
    ELSE urls

\* Sleep without the delay
Sleep_Skipped(t, o) == t + o

\* the time after  time.sleep(0.1)  entered at time t and oversleeping by o
Sleep(t, o) == t + SleepDelay + o

\* the dict  report
MakeReport(urls, res) ==
    [ summary |->
        [ total_urls |-> Cardinality(urls),
          valid      |-> Len(res.valid),
          redirected |-> Len(res.redirected),
          broken     |-> Len(res.broken),
          template   |-> Len(res.template),
          example    |-> Len(res.example),
          error      |-> Len(res.error) ],
      results |-> res ]

\* how long a probe can last, in milliseconds
ProbeTimes == {0, 50}

\* by how much time.sleep can exceed the time asked for, in milliseconds
Oversleeps == {0, 50}

Init ==
    /\ files \in [1..NFiles -> FileStates]
    /\ pc = "collect"
    /\ file_idx = 1
    /\ all_urls = {}
    /\ read_errors = {}
    /\ queue = <<>>
    /\ i = 1
    /\ results = [b \in BucketNames |-> <<>>]
    /\ requests = <<>>
    /\ clock = 0
    /\ report = <<>>
    /\ exc = ""

\* one turn of  for doc_file in doc_files ; after the last one  sorted(all_urls)
\* is taken and the verifying loop starts
CollectFile ==
    /\ pc = "collect"
    /\ file_idx <= NFiles
    /\ all_urls' = CollectOne(all_urls, files[file_idx])
    /\ read_errors' = IF files[file_idx].readable
                      THEN read_errors
                      ELSE read_errors \cup {file_idx}
    /\ file_idx' = file_idx + 1
    /\ IF file_idx = NFiles
       THEN pc' = "verify" /\ queue' = Sorted(all_urls')
       ELSE pc' = pc /\ queue' = queue
    /\ UNCHANGED <<files, i, results, requests, clock, report, exc>>

\* one turn of  for i, url in enumerate(sorted(all_urls), 1)
CheckNext ==
    /\ pc = "verify"
    /\ i <= Len(queue)
    /\ \E r \in {CheckUrl(queue[i], net) : net \in NetOutcomes} :
       \E d \in (IF r.calls = <<>> THEN {0} ELSE ProbeTimes) :
       \E o \in Oversleeps :
         /\ requests' = requests \o
              [k \in 1..Len(r.calls) |->
                 [url |-> r.calls[k].url, net |-> r.calls[k].net,
                  at |-> clock, idx |-> i]]
         /\ IF r.raised
            THEN /\ pc' = "aborted"
                 /\ exc' = r.calls[1].net.kind
                 /\ clock' = clock + d
                 /\ UNCHANGED <<i, results>>
            ELSE /\ results' =
                      [results EXCEPT ![Bucket(r.ret[2], r.ret[3])] =
                           Append(@, r.ret)]
                 /\ clock' = Sleep(clock + d, o)
                 /\ i' = i + 1
                 /\ UNCHANGED <<pc, exc>>
    /\ UNCHANGED <<files, file_idx, all_urls, read_errors, queue, report>>

\* after the loop: open(..., 'w') and json.dump succeed
WriteReport ==
    /\ pc = "verify"
    /\ i > Len(queue)
    /\ report' = <<MakeReport(all_urls, results)>>
    /\ pc' = "done"
    /\ UNCHANGED <<files, file_idx, all_urls, read_errors, queue, i, results,
                   requests, clock, exc>>

\* after the loop: open(..., 'w') raises, nothing catches it
WriteReportFails ==
    /\ pc = "verify"
    /\ i > Len(queue)
    /\ exc' = "OSError"
    /\ pc' = "aborted"
    /\ UNCHANGED <<files, file_idx, all_urls, read_errors, queue, i, results,
                   requests, clock, report>>

Next ==
    \/ CollectFile
    \/ CheckNext
    \/ WriteReport
    \/ WriteReportFails

Spec == Init /\ [][Next]_vars

(***************************************************************************)
(* Vocabulary of the properties.                                           *)
(***************************************************************************)
\* positions of queue the verifying loop has gone through
Processed == 1..(i - 1)

\* the verifying loop is over
LoopFinished == pc \in {"verify", "done", "aborted"} /\ i > Len(queue)

\* all the tuples of the report, bucket after bucket
AllEntries ==
    results.valid \o results.redirected \o results.broken
        \o results.template \o results.example \o results.error

\* number of report entries whose URL is u
Occurrences(u) ==
    Cardinality({k \in 1..Len(AllEntries) : AllEntries[k][1] = u})

\* the buckets that hold the tuple t
BucketsWith(t) == {b \in BucketNames : t \in Range(results[b])}

\* the buckets that hold an entry whose URL is u
BucketsOf(u) ==
    {b \in BucketNames : \E k \in 1..Len(results[b]) : results[b][k][1] = u}

\* the network calls made while the loop was at position j
CallsAt(j) == {k \in 1..Len(requests) : requests[k].idx = j}

TransportKinds == {"URLError", "Exception"}

(***************************************************************************)
(* C1.  After the verifying loop, every normalized URL of the corpus (the  *)
(* raw match with its trailing quote and punctuation characters stripped)  *)
(* is the URL of exactly one entry of the six buckets: none is lost, none  *)
(* is listed twice.                                                        *)
(***************************************************************************)
C1_EachNormalizedUrlListedOnce ==
    LoopFinished => \A u \in all_urls : Occurrences(RStrip(u)) = 1

(***************************************************************************)
(* C2.  Within one run no normalized URL is requested from the network     *)
(* twice.                                                                  *)
(***************************************************************************)
C2_NoUrlProbedTwice ==
    \A k, l \in 1..Len(requests) :
        k # l => requests[k].url # requests[l].url

(***************************************************************************)
(* C3.  A URL with a template marker or an example-domain string causes no *)
(* network call, and no network call is ever made for a URL that has such  *)
(* a marker; a URL with a template marker ends in the template bucket      *)
(* only, a URL with an example-domain string (and no template marker, see  *)
(* C10) in the example bucket only.                                        *)
(***************************************************************************)
C3_ExemptNeverProbed ==
    /\ \A k \in 1..Len(requests) :
           ~IsTemplateUrl(requests[k].url) /\ ~IsExampleUrl(requests[k].url)
    /\ \A j \in Processed :
       \A tpl \in {IsTemplateUrl(queue[j])}, exa \in {IsExampleUrl(queue[j])} :
           /\ tpl \/ exa => CallsAt(j) = {}
           /\ tpl => BucketsOf(queue[j]) = {"template"}
           /\ exa /\ ~tpl => BucketsOf(queue[j]) = {"example"}

\* a run that has met a template URL, an example URL and a probed URL
C3_Witness ==
    /\ pc = "done"
    /\ requests # <<>>
    /\ \E j \in Processed : IsTemplateUrl(queue[j])
    /\ \E j \in Processed : IsExampleUrl(queue[j]) /\ ~IsTemplateUrl(queue[j])

(***************************************************************************)
(* C4.  Every probe that ends with a 2xx status is bucketed by its final   *)
(* URL: under redirected and not under valid when the final URL differs    *)
(* from the requested one, under valid when it is the same.                *)
(***************************************************************************)
C4_SuccessBucketedByFinalUrl ==
    \A k \in 1..Len(requests) :
        LET r == requests[k]
        IN  r.net.kind = "response" /\ r.net.code \in 200..299 =>
              IF r.net.final_url # r.url
              THEN LET t == <<r.url, r.net.code, r.net.final_url>>
                   IN  "redirected" \in BucketsWith(t)
                          /\ "valid" \notin BucketsWith(t)
              ELSE "valid" \in BucketsWith(<<r.url, r.net.code, OK>>)

(***************************************************************************)
(* C5.  Every probe that ends with a 4xx or 5xx status yields the tuple    *)
(* (url, status, reason phrase), and that tuple is in the broken bucket    *)
(* and in no other.                                                        *)
(***************************************************************************)
C5_HttpErrorsAreBroken ==
    \A k \in 1..Len(requests) :
        LET r == requests[k]
        IN  r.net.kind = "HTTPError" /\ r.net.code \in 400..599 =>
              BucketsWith(<<r.url, r.net.code, r.net.reason>>) = {"broken"}

\* a run that has met a 4xx and a 5xx answer
C5_Witness ==
    /\ \E k \in 1..Len(requests) : requests[k].net.code \in 400..499
    /\ \E k \in 1..Len(requests) : requests[k].net.code \in 500..599

(***************************************************************************)
(* C6.  A probe that fails before a status is obtained does not abort the  *)
(* run: it comes back from check_url as a tuple that is put in the error   *)
(* bucket and in no other, every turn of the loop files one entry, the     *)
(* run ends only after the loop has gone through every URL, normally with  *)
(* the report written over all of them, abnormally only when the report    *)
(* cannot be written.                                                      *)
(***************************************************************************)
C6_TransportErrorsAreData ==
    /\ \A k \in 1..Len(requests) :
           LET r == requests[k]
           IN  r.net.kind \in TransportKinds =>
                 BucketsWith(<<r.url,
                               IF r.net.kind = "URLError" THEN -2 ELSE -3,
                               r.net.reason>>) = {"error"}
    /\ pc = "verify" => Len(AllEntries) = i - 1
    /\ pc \in {"done", "aborted"} =>
           i = Len(queue) + 1 /\ Len(AllEntries) = Len(queue)
    /\ pc = "done" => report = <<MakeReport(all_urls, results)>>
    /\ pc = "aborted" => exc = "OSError"

\* a finished run in which a probe failed and a later URL was processed
C6_Witness ==
    /\ pc = "done"
    /\ \E k \in 1..Len(requests) :
           /\ requests[k].net.kind \in TransportKinds
           /\ requests[k].idx < Len(queue)

(***************************************************************************)
(* C7.  An unreadable corpus file is reported and skipped: it adds no URL, *)
(* the working set is exactly the URLs of the readable files gone through, *)
(* and the run goes on to probe that set and write the report.             *)
(***************************************************************************)
C7_UnreadableFileSkipped ==
    /\ all_urls =
           UNION { ExtractUrlsFromFile(files[f].content) :
                     f \in {g \in 1..(file_idx - 1) : files[g].readable} }
    /\ read_errors = {f \in 1..(file_idx - 1) : ~files[f].readable}
    /\ pc # "collect" => file_idx = NFiles + 1 /\ Range(queue) = all_urls
    /\ pc = "done" => report # <<>> /\ Len(AllEntries) = Cardinality(all_urls)
    /\ pc = "aborted" => exc = "OSError"

\* a finished run over a corpus with an unreadable file followed by a
\* readable one that has URLs
C7_Witness ==
    /\ pc = "done"
    /\ \E f, g \in 1..NFiles :
           f < g /\ ~files[f].readable /\ files[g].readable
    /\ all_urls # {}

(***************************************************************************)
(* C8.  The run ends abnormally exactly when no corpus file can be read or *)
(* the report cannot be written.                                           *)
(***************************************************************************)
C8_AbnormalIffEnvironmentFailure ==
    /\ pc = "done" => \E f \in 1..NFiles : files[f].readable
    /\ pc = "aborted" =>
           exc = "OSError" \/ \A f \in 1..NFiles : ~files[f].readable

(***************************************************************************)
(* C9.  Between the starts of two successive network probes at least the   *)
(* inter-probe delay elapses, whatever lies between them.                  *)
(***************************************************************************)
C9_ProbesSpaced ==
    \A k \in 2..Len(requests) :
        requests[k].at - requests[k - 1].at >= SleepDelay

\* two probes with an exempt URL processed between them
C9_Witness ==
    \E k \in 2..Len(requests) : requests[k].idx - requests[k - 1].idx >= 2

(***************************************************************************)
(* C10.  Every processed URL got exactly one of the classes Template,      *)
(* ExampleDomain and Probeable, and a URL with both a template marker and  *)
(* an example-domain string got Template.                                  *)
(***************************************************************************)
ClassesOf(j) ==
    {c \in {"Template", "ExampleDomain", "Probeable"} :
        \/ c = "Template"
              /\ <<queue[j], -1, TEMPLATE_URL>> \in Range(results.template)
        \/ c = "ExampleDomain"
              /\ <<queue[j], -1, EXAMPLE_URL>> \in Range(results.example)
        \/ c = "Probeable" /\ CallsAt(j) # {}}

C10_ClassificationTotal ==
    \A j \in Processed :
    \A classes \in {ClassesOf(j)} :
        /\ Cardinality(classes) = 1
        /\ IsTemplateUrl(queue[j]) /\ IsExampleUrl(queue[j])
               => classes = {"Template"}

\* a URL with both kinds of marker has been processed
C10_Witness ==
    \E j \in Processed : IsTemplateUrl(queue[j]) /\ IsExampleUrl(queue[j])

====
